---- MODULE Spec2Model ----
(***************************************************************************)
(* PID temperature-control simulation: PIDController (pid_controller.py),  *)
(* TemperatureSystem and run_simulation (temperature_system.py) and the    *)
(* settling-time part of print_performance (ui_plot.py).                   *)
(*                                                                         *)
(* Numbers.  The program computes in Python floats.  Here a real quantity  *)
(* x is the integer x * Scale (four decimal digits), and every product and *)
(* quotient is rounded to the nearest representable value, as a float      *)
(* operation is.  The program's constants (0.1, 0.03, 5.0, 0.02, 25, 100)  *)
(* are exact in this representation.  Python ints (loop index, step count, *)
(* list indices) are plain integers.                                       *)
(***************************************************************************)
EXTENDS Integers, Sequences, FiniteSets, TLC

VARIABLES pc, args, time_steps, i, pid, system, data, loc, perf, call, ncalls

vars == <<pc, args, time_steps, i, pid, system, data, loc, perf, call, ncalls>>

----------------------------------------------------------------------------
(* Arithmetic *)

Scale == 10 * 10 * 10 * 10

FP(n) == n * Scale

Abs(x) == IF x < 0 THEN -x ELSE x

Sgn(x) == IF x < 0 THEN -1 ELSE IF x > 0 THEN 1 ELSE 0

\* n / d for n >= 0, d > 0, rounded to the nearest integer
RoundDiv(n, d) == (n \div d) + (IF 2 * (n % d) >= d THEN 1 ELSE 0)

\* a * b for magnitudes; the product is formed in parts so that no
\* intermediate value is larger than the result
MulMag(a, b) ==
    LET ah == a \div Scale
        al == a % Scale
        bh == b \div Scale
        bl == b % Scale
    IN  ah * bh * Scale + ah * bl + al * bh + RoundDiv(al * bl, Scale)

\* the float product a * b
Mul(a, b) == Sgn(a) * Sgn(b) * MulMag(Abs(a), Abs(b))

\* a / b for magnitudes, b > 0
DivMag(a, b) == (a \div b) * Scale + RoundDiv((a % b) * Scale, b)

\* the float quotient a / b, b # 0
Div(a, b) == Sgn(a) * Sgn(b) * DivMag(Abs(a), Abs(b))

\* int(x): truncation toward zero, a Python int
Trunc(x) == Sgn(x) * (Abs(x) \div Scale)

----------------------------------------------------------------------------
(* PIDController *)

PIDInit(Kp, Ki, Kd, setpoint) ==
    [Kp |-> Kp, Ki |-> Ki, Kd |-> Kd, setpoint |-> setpoint,
     integral |-> 0, prev_error |-> 0]

\* update with the derivative taken after prev_error was overwritten, and
\* taken on every dt that is not 0
PIDUpdateStaleOrder(c, current_value, dtv) ==
    LET error      == c.setpoint - current_value
        P          == Mul(c.Kp, error)
        integral   == c.integral + Mul(error, dtv)
        I          == Mul(c.Ki, integral)
        derivative == IF dtv # 0 THEN Div(error - error, dtv) ELSE 0
        D          == Mul(c.Kd, derivative)
        output     == P + I + D
    IN  [pid |-> [c EXCEPT !.integral = integral, !.prev_error = error],
         output |-> output, P |-> P, I |-> I, D |-> D]

\* update(current_value, dt): the controller after the call and the
\* returned tuple (output, P, I, D)
PIDUpdate(c, current_value, dtv) ==
    LET error      == c.setpoint - current_value
        P          == Mul(c.Kp, error)
        integral   == c.integral + Mul(error, dtv)
        I          == Mul(c.Ki, integral)
        derivative == IF dtv > 0 THEN Div(error - c.prev_error, dtv) ELSE 0
        D          == Mul(c.Kd, derivative)
        output     == P + I + D
    IN  [pid |-> [c EXCEPT !.integral = integral, !.prev_error = error],
         output |-> output, P |-> P, I |-> I, D |-> D]

\* reset that clears the integral only
PIDResetIntegralOnly(c) == [c EXCEPT !.integral = 0]

PIDReset(c) == [c EXCEPT !.integral = 0, !.prev_error = 0]

----------------------------------------------------------------------------
(* TemperatureSystem *)

SystemInit(initial_temp, ambient_temp) ==
    [temp |-> initial_temp, ambient |-> ambient_temp,
     heat_capacity |-> FP(5), cooling_rate |-> 3 * (Scale \div 100)]

\* the max_temp computed (and dropped) by the constructor
MaxTemp(s) == s.ambient + Div(Div(FP(100), s.heat_capacity), s.cooling_rate)

\* update that cools toward 0 instead of toward ambient
SystemUpdateNoAmbient(s, heater_power, dtv) ==
    LET heating == Div(heater_power, s.heat_capacity)
        cooling == Mul(s.cooling_rate, s.temp)
    IN  [s EXCEPT !.temp = s.temp + Mul(heating - cooling, dtv)]

\* update that leaves dt out of the integration step
SystemUpdateNoDt(s, heater_power, dtv) ==
    LET heating == Div(heater_power, s.heat_capacity)
        cooling == Mul(s.cooling_rate, s.temp - s.ambient)
    IN  [s EXCEPT !.temp = s.temp + (heating - cooling)]

\* update(heater_power, dt): the system after the call; the call returns
\* its temp
SystemUpdate(s, heater_power, dtv) ==
    LET heating == Div(heater_power, s.heat_capacity)
        cooling == Mul(s.cooling_rate, s.temp - s.ambient)
    IN  [s EXCEPT !.temp = s.temp + Mul(heating - cooling, dtv)]

----------------------------------------------------------------------------
(* run_simulation *)

dt == Scale \div 10

Ambient == 25

\* time_steps = int(sim_time / dt)
TimeSteps(sim_time) == Trunc(Div(sim_time, dt))

\* a clip that leaves the bounds out
ClipNothing(x, lo, hi) == x

\* np.clip(x, lo, hi)
Clip(x, lo, hi) == IF x < lo THEN lo ELSE IF x > hi THEN hi ELSE x

EmptyData(Kp, Ki, Kd) ==
    [times |-> <<>>, temperatures |-> <<>>, setpoints |-> <<>>,
     heater_powers |-> <<>>, p_terms |-> <<>>, i_terms |-> <<>>,
     d_terms |-> <<>>, Kp |-> Kp, Ki |-> Ki, Kd |-> Kd]

NoLoc == [current_time |-> 0, current_temp |-> 0, control_output |-> 0,
          heater_power |-> 0, new_temp |-> 0]

\* the appends with the D term left out
AppendStepNoD(d, current_time, current_temp, target_temp, heater_power, P, I, D) ==
    [d EXCEPT !.times         = Append(@, current_time),
              !.temperatures  = Append(@, current_temp),
              !.setpoints     = Append(@, target_temp),
              !.heater_powers = Append(@, heater_power),
              !.p_terms       = Append(@, P),
              !.i_terms       = Append(@, I)]

\* the appends at the end of one loop iteration
AppendStep(d, current_time, current_temp, target_temp, heater_power, P, I, D) ==
    [d EXCEPT !.times         = Append(@, current_time),
              !.temperatures  = Append(@, current_temp),
              !.setpoints     = Append(@, target_temp),
              !.heater_powers = Append(@, heater_power),
              !.p_terms       = Append(@, P),
              !.i_terms       = Append(@, I),
              !.d_terms       = Append(@, D)]

----------------------------------------------------------------------------
(* print_performance: the settling time *)

NoneIdx == -1

CheckWindow == 50

Min(a, b) == IF a < b THEN a ELSE b

\* errors[k] = setpoints[k] - temps[k], k counted from 0
ErrorAt(d, k) == d.setpoints[k + 1] - d.temperatures[k + 1]

\* tolerance = setpoints[0] * 0.02
Tolerance(d) == Mul(d.setpoints[1], 2 * (Scale \div 100))

\* the two tests line 117 and line 120 make of index k
Settled(d, k) ==
    /\ Abs(ErrorAt(d, k)) <= Tolerance(d)
    /\ LET check_length == Min(CheckWindow, Len(d.temperatures) - k)
       IN  \A j \in k .. (k + check_length - 1) :
               Abs(ErrorAt(d, j)) <= Tolerance(d)

\* the for loop with its break: the first settled index, or None
FirstSettled(d) ==
    LET n == Len(d.temperatures)
    IN  IF \E k \in 0 .. (n - 1) : Settled(d, k)
        THEN CHOOSE k \in 0 .. (n - 1) :
                 Settled(d, k) /\ \A m \in 0 .. (k - 1) : ~Settled(d, m)
        ELSE NoneIdx

\* Python's truth value of steady_state_idx (None and 0 are false)
Truthy(idx) == idx # NoneIdx /\ idx # 0

\* what the settling-time line prints
SettlingReport(d, idx) ==
    IF Truthy(idx) THEN [kind |-> "time", time |-> d.times[idx + 1]]
    ELSE [kind |-> "not_reached", time |-> 0]

NoPerf == [steady_state_idx |-> NoneIdx, kind |-> "none", time |-> 0,
           error |-> "none"]

\* print_performance(data) up to the settling-time line: setpoints[0] of an
\* empty array raises IndexError.  The overshoot and MSE lines that follow
\* only print, and cannot raise on a record that is not empty.
PerformanceOf(d) ==
    IF Len(d.setpoints) = 0
    THEN [NoPerf EXCEPT !.error = "IndexError"]
    ELSE LET idx == FirstSettled(d)
             rep == SettlingReport(d, idx)
         IN  [steady_state_idx |-> idx, kind |-> rep.kind, time |-> rep.time,
              error |-> "none"]

----------------------------------------------------------------------------
(* The calls made on a controller or a plant outside a run *)

NoCall == [op |-> "none", prev_op |-> "none", value |-> 0, dtv |-> 0,
           before_pid |-> PIDInit(0, 0, 0, 0),
           before_system |-> SystemInit(0, 0),
           output |-> 0, P |-> 0, I |-> 0, D |-> 0, ret |-> 0]

----------------------------------------------------------------------------
(* main: run_simulation, then print_performance on what it returns *)

MaxSimTime == 1

MainSimTime == 300

Gains == {FP(1), FP(5), FP(100)}

IGains == {0, Scale \div 10}

DGains == {0, FP(1)}

Targets == {FP(25), FP(26), FP(200)}

SimTimes == {FP(t) : t \in -1 .. MaxSimTime}

\* the run main makes, and a full-power run of the same length
LongRuns ==
    { [Kp |-> FP(5), Ki |-> Scale \div 10, Kd |-> FP(1),
       target_temp |-> FP(200), sim_time |-> FP(MainSimTime)],
      [Kp |-> FP(5), Ki |-> 0, Kd |-> 0,
       target_temp |-> FP(1000), sim_time |-> FP(MainSimTime)] }

Runs ==
    [Kp : Gains, Ki : IGains, Kd : DGains, target_temp : Targets,
     sim_time : SimTimes] \cup LongRuns

Init ==
    /\ args \in Runs
    /\ time_steps = TimeSteps(args.sim_time)
    /\ pid = PIDInit(args.Kp, args.Ki, args.Kd, args.target_temp)
    /\ system = SystemInit(FP(Ambient), FP(Ambient))
    /\ data = EmptyData(args.Kp, args.Ki, args.Kd)
    /\ i = 0
    /\ loc = NoLoc
    /\ perf = NoPerf
    /\ pc = "loop"
    /\ call = NoCall
    /\ ncalls = 0

\* an iteration that reads current_temp after the plant update
LoopStepReadAfter ==
    /\ pc = "loop"
    /\ i < time_steps
    /\ LET current_time == Mul(FP(i), dt)
           u            == PIDUpdate(pid, system.temp, dt)
           heater_power == Clip(u.output, 0, FP(100))
           sys2         == SystemUpdate(system, heater_power, dt)
           current_temp == sys2.temp
       IN  /\ pid' = u.pid
           /\ system' = sys2
           /\ loc' = [current_time |-> current_time, current_temp |-> current_temp,
                      control_output |-> u.output, heater_power |-> heater_power,
                      new_temp |-> sys2.temp]
           /\ data' = AppendStep(data, current_time, current_temp,
                                 args.target_temp, heater_power, u.P, u.I, u.D)
    /\ i' = i + 1
    /\ UNCHANGED <<pc, args, time_steps, perf, call, ncalls>>

\* one iteration of the for loop
LoopStep ==
    /\ pc = "loop"
    /\ i < time_steps
    /\ LET current_time == Mul(FP(i), dt)
           current_temp == system.temp
           u            == PIDUpdate(pid, current_temp, dt)
           heater_power == Clip(u.output, 0, FP(100))
           sys2         == SystemUpdate(system, heater_power, dt)
       IN  /\ pid' = u.pid
           /\ system' = sys2
           /\ loc' = [current_time |-> current_time, current_temp |-> current_temp,
                      control_output |-> u.output, heater_power |-> heater_power,
                      new_temp |-> sys2.temp]
           /\ data' = AppendStep(data, current_time, current_temp,
                                 args.target_temp, heater_power, u.P, u.I, u.D)
    /\ i' = i + 1
    /\ UNCHANGED <<pc, args, time_steps, perf, call, ncalls>>

\* the range is exhausted: run_simulation returns the dictionary
Return ==
    /\ pc = "loop"
    /\ i >= time_steps
    /\ pc' = "returned"
    /\ UNCHANGED <<args, time_steps, i, pid, system, data, loc, perf, call, ncalls>>

\* main passes the dictionary to print_performance
PrintPerformance ==
    /\ pc = "returned"
    /\ perf' = PerformanceOf(data)
    /\ pc' = IF perf'.error = "none" THEN "reported" ELSE "raised"
    /\ UNCHANGED <<args, time_steps, i, pid, system, data, loc, call, ncalls>>

Next == LoopStep \/ Return \/ PrintPerformance

Spec == Init /\ [][Next]_vars

----------------------------------------------------------------------------
(* A PIDController driven by any sequence of update and reset calls *)

MaxCalls == 3

PidGains == { <<FP(5), Scale \div 10, FP(1)>>, <<FP(2), 0, Scale \div 2>> }

PidSetpoints == {0, FP(200)}

PidValues == {-FP(50), FP(25), FP(200) + Scale \div 2}

CallDts == {-FP(1), 0, Scale \div 10, FP(2)}

InitPID ==
    /\ \E g \in PidGains, sp \in PidSetpoints : pid = PIDInit(g[1], g[2], g[3], sp)
    /\ system = SystemInit(FP(Ambient), FP(Ambient))
    /\ args = [Kp |-> 0, Ki |-> 0, Kd |-> 0, target_temp |-> 0, sim_time |-> 0]
    /\ time_steps = 0
    /\ data = EmptyData(0, 0, 0)
    /\ i = 0
    /\ loc = NoLoc
    /\ perf = NoPerf
    /\ pc = "calls"
    /\ call = NoCall
    /\ ncalls = 0

\* pid.update(value, dtv)
CallUpdate ==
    /\ pc = "calls"
    /\ ncalls < MaxCalls
    /\ \E value \in PidValues, dtv \in CallDts :
         LET u == PIDUpdate(pid, value, dtv)
         IN  /\ pid' = u.pid
             /\ call' = [NoCall EXCEPT !.op = "update", !.prev_op = call.op,
                                       !.value = value, !.dtv = dtv,
                                       !.before_pid = pid,
                                       !.output = u.output, !.P = u.P,
                                       !.I = u.I, !.D = u.D]
    /\ ncalls' = ncalls + 1
    /\ UNCHANGED <<pc, args, time_steps, i, system, data, loc, perf>>

\* pid.reset()
CallReset ==
    /\ pc = "calls"
    /\ ncalls < MaxCalls
    /\ pid' = PIDReset(pid)
    /\ call' = [NoCall EXCEPT !.op = "reset", !.prev_op = call.op,
                              !.before_pid = pid]
    /\ ncalls' = ncalls + 1
    /\ UNCHANGED <<pc, args, time_steps, i, system, data, loc, perf>>

NextPID == CallUpdate \/ CallReset

SpecPID == InitPID /\ [][NextPID]_vars

----------------------------------------------------------------------------
(* A TemperatureSystem driven by any sequence of update calls *)

PlantTemps == {Scale \div 4, FP(25), FP(200)}

PlantAmbients == {FP(20) + Scale \div 2, FP(25)}

PlantPowers == {-FP(50), 0, FP(100) \div 3, FP(100)}

\* cooling_rate * heat_capacity * (temp - ambient)
EquilibriumPower(s) ==
    Mul(Mul(s.cooling_rate, s.heat_capacity), s.temp - s.ambient)

InitPlant ==
    /\ \E t \in PlantTemps, a \in PlantAmbients : system = SystemInit(t, a)
    /\ pid = PIDInit(0, 0, 0, 0)
    /\ args = [Kp |-> 0, Ki |-> 0, Kd |-> 0, target_temp |-> 0, sim_time |-> 0]
    /\ time_steps = 0
    /\ data = EmptyData(0, 0, 0)
    /\ i = 0
    /\ loc = NoLoc
    /\ perf = NoPerf
    /\ pc = "calls"
    /\ call = NoCall
    /\ ncalls = 0

\* system.update(heater_power, dtv)
CallPlantUpdate ==
    /\ pc = "calls"
    /\ ncalls < MaxCalls
    /\ \E heater_power \in PlantPowers, dtv \in CallDts :
         LET s2 == SystemUpdate(system, heater_power, dtv)
         IN  /\ system' = s2
             /\ call' = [NoCall EXCEPT !.op = "plant_update", !.prev_op = call.op,
                                       !.value = heater_power, !.dtv = dtv,
                                       !.before_system = system,
                                       !.ret = s2.temp]
    /\ ncalls' = ncalls + 1
    /\ UNCHANGED <<pc, args, time_steps, i, pid, data, loc, perf>>

\* system.update(cooling_rate * heat_capacity * (temp - ambient), dtv)
CallEquilibrium ==
    /\ pc = "calls"
    /\ ncalls < MaxCalls
    /\ \E dtv \in CallDts :
         LET heater_power == EquilibriumPower(system)
             s2 == SystemUpdate(system, heater_power, dtv)
         IN  /\ system' = s2
             /\ call' = [NoCall EXCEPT !.op = "equilibrium", !.prev_op = call.op,
                                       !.value = heater_power, !.dtv = dtv,
                                       !.before_system = system,
                                       !.ret = s2.temp]
    /\ ncalls' = ncalls + 1
    /\ UNCHANGED <<pc, args, time_steps, i, pid, data, loc, perf>>

NextPlant == CallPlantUpdate \/ CallEquilibrium

SpecPlant == InitPlant /\ [][NextPlant]_vars

----------------------------------------------------------------------------
(* Properties of PIDController and TemperatureSystem *)

\* C6: update returns P = Kp*error, I = Ki*(integral_before + error*dt),
\* D = Kd*(error - prev_error_before)/dt when dt > 0 and D = 0 when dt <= 0,
\* output = P + I + D; afterwards integral = integral_before + error*dt and
\* prev_error = error, on both dt branches.
UpdateContract ==
    call.op = "update" =>
        LET b     == call.before_pid
            error == b.setpoint - call.value
        IN  /\ call.P = Mul(b.Kp, error)
            /\ call.I = Mul(b.Ki, b.integral + Mul(error, call.dtv))
            /\ call.dtv > 0 =>
                 call.D = Mul(b.Kd, Div(error - b.prev_error, call.dtv))
            /\ call.dtv <= 0 => call.D = 0
            /\ call.output = call.P + call.I + call.D
            /\ pid.integral = b.integral + Mul(error, call.dtv)
            /\ pid.prev_error = error
            /\ pid.Kp = b.Kp /\ pid.Ki = b.Ki /\ pid.Kd = b.Kd
            /\ pid.setpoint = b.setpoint

\* an update with dt <= 0 on a controller that has a nonzero prev_error and
\* integral, with a nonzero error
UpdateContractWitness ==
    /\ call.op = "update"
    /\ call.dtv < 0
    /\ call.before_pid.prev_error # 0
    /\ call.before_pid.integral # 0
    /\ call.before_pid.setpoint - call.value # call.before_pid.prev_error
    /\ pid.integral # call.before_pid.integral

\* C7: reset sets integral and prev_error to 0 and keeps gains and setpoint;
\* an update right after a reset returns and leaves what the first update of
\* a fresh controller with the same gains and setpoint does; a second reset
\* in a row changes nothing.
ResetContract ==
    /\ call.op = "reset" =>
         /\ pid.integral = 0
         /\ pid.prev_error = 0
         /\ pid.Kp = call.before_pid.Kp
         /\ pid.Ki = call.before_pid.Ki
         /\ pid.Kd = call.before_pid.Kd
         /\ pid.setpoint = call.before_pid.setpoint
    /\ (call.op = "update" /\ call.prev_op = "reset") =>
         LET fresh == PIDInit(pid.Kp, pid.Ki, pid.Kd, pid.setpoint)
             first == PIDUpdate(fresh, call.value, call.dtv)
         IN  /\ <<call.output, call.P, call.I, call.D>>
                  = <<first.output, first.P, first.I, first.D>>
             /\ pid = first.pid
    /\ (call.op = "reset" /\ call.prev_op = "reset") => pid = call.before_pid

\* an update that follows a reset of a controller that had been updated
ResetContractWitness ==
    /\ call.op = "update"
    /\ call.prev_op = "reset"
    /\ ncalls >= 3
    /\ call.D # 0
    /\ call.I # 0

----------------------------------------------------------------------------
(* Properties of run_simulation and print_performance *)

SeriesOf(d) == <<d.times, d.temperatures, d.setpoints, d.heater_powers,
                 d.p_terms, d.i_terms, d.d_terms>>

Returned == pc \in {"returned", "reported", "raised"}

\* C1: at every step the heater power applied to the plant and appended to
\* heater_powers is in [0, 100]: an output above 100 is applied as 100, one
\* below 0 as 0, one inside the range unchanged.
ClampedPower ==
    /\ \A k \in 1 .. Len(data.heater_powers) :
         data.heater_powers[k] >= 0 /\ data.heater_powers[k] <= FP(100)
    /\ i > 0 =>
         /\ data.heater_powers[i] = loc.heater_power
         /\ loc.control_output > FP(100) => loc.heater_power = FP(100)
         /\ loc.control_output < 0 => loc.heater_power = 0
         /\ (loc.control_output >= 0 /\ loc.control_output <= FP(100)) =>
              loc.heater_power = loc.control_output
         /\ loc.new_temp =
              SystemUpdate([system EXCEPT !.temp = loc.current_temp],
                           loc.heater_power, dt).temp

\* a step whose output is below 0 and is applied as 0, in a run whose first
\* output was above 100 and was applied as 100
ClampedPowerWitness ==
    /\ i > 1
    /\ loc.control_output < 0
    /\ loc.heater_power = 0
    /\ data.heater_powers[i] = 0
    /\ data.p_terms[1] + data.i_terms[1] + data.d_terms[1] > FP(100)
    /\ data.heater_powers[1] = FP(100)

\* C4: the temperature recorded for step i is the plant temperature before
\* the step's control action: temperatures[0] is the initial 25, the
\* controller of step i is fed temperatures[i], temperatures[i+1] is the
\* value the plant update of step i returned, and the value the last plant
\* update returned is not recorded.
RecordedBeforeUpdateState ==
    /\ Len(data.temperatures) = i
    /\ i > 0 =>
         /\ data.temperatures[1] = FP(Ambient)
         /\ data.temperatures[i] = loc.current_temp
         /\ pid.prev_error = pid.setpoint - data.temperatures[i]
         /\ system.temp = loc.new_temp

RecordedBeforeUpdateStep ==
    i' = i + 1 =>
        /\ data'.temperatures[i + 1] = system.temp
        /\ i > 0 => data'.temperatures[i + 1] = loc.new_temp
        /\ Len(data'.temperatures) = i + 1

RecordedBeforeUpdate ==
    [] RecordedBeforeUpdateState /\ [][RecordedBeforeUpdateStep]_vars

\* a run has returned with a last step that changed the temperature
RecordedBeforeUpdateWitness ==
    /\ pc = "returned"
    /\ i > 2
    /\ loc.new_temp # loc.current_temp
    /\ data.temperatures[i] # data.temperatures[i - 1]

Max(a, b) == IF a > b THEN a ELSE b

\* floor of a float, a Python int
Floor(x) == x \div Scale

SeriesAligned ==
    /\ \A k \in 1 .. 7 : Len(SeriesOf(data)[k]) = i
    /\ \A k \in 1 .. Len(data.times) : data.times[k] = Mul(FP(k - 1), dt)
    /\ (Returned /\ args.sim_time = FP(300)) => Len(data.times) = 3000

\* C5 as stated: the seven series have the same length after every
\* iteration, times[i] = i * dt, and the returned length is
\* floor(sim_time / dt) (3000 for sim_time = 300).
SeriesLengthFloor ==
    /\ SeriesAligned
    /\ Returned => Len(data.times) = Floor(Div(args.sim_time, dt))

\* C5, amended: the same, with the returned length floor(sim_time / dt) when
\* sim_time >= 0 and 0 when sim_time < 0.
SeriesLength ==
    /\ SeriesAligned
    /\ Returned => Len(data.times) = Max(0, Floor(Div(args.sim_time, dt)))

\* the run of main has returned its 3000 samples
SeriesLengthWitness ==
    /\ pc = "returned"
    /\ args.sim_time = FP(300)
    /\ Len(data.d_terms) = 3000
    /\ data.times[3000] = FP(300) - dt

\* C10: the plant temperature, and every recorded temperature, stays between
\* the ambient 25 and ambient + (100 / heat_capacity) / cooling_rate.
TemperatureInRange ==
    /\ system.temp >= FP(Ambient)
    /\ system.temp <= MaxTemp(system)
    /\ \A k \in 1 .. Len(data.temperatures) :
         /\ data.temperatures[k] >= FP(Ambient)
         /\ data.temperatures[k] <= MaxTemp(system)

\* a full-power step close to the maximum temperature
TemperatureInRangeWitness ==
    /\ i > 0
    /\ loc.heater_power = FP(100)
    /\ system.temp > FP(691)
    /\ system.temp > loc.current_temp

PureP == args.Ki = 0 /\ args.Kd = 0 /\ args.Kp > 0 /\ args.target_temp > FP(Ambient)

\* a loop step left the plant temperature unchanged
SteadyStep == i > 0 /\ loc.new_temp = loc.current_temp

AlwaysFullPower == \A k \in 1 .. Len(data.heater_powers) : data.heater_powers[k] = FP(100)

\* dt * (Kp / heat_capacity + cooling_rate) <= 1: one step cannot carry the
\* error across zero
GainWithinStep ==
    Mul(dt, Div(args.Kp, system.heat_capacity) + system.cooling_rate) <= FP(1)

Qualifying(d) == { k \in 0 .. (Len(d.temperatures) - 1) : Settled(d, k) }

\* C2: the settling time reported is the time of the first qualifying index;
\* not reached is reported only when no index qualifies.
SettlingTimeReported ==
    pc = "reported" =>
        IF Qualifying(data) = {}
        THEN perf.kind = "not_reached"
        ELSE LET first == CHOOSE k \in Qualifying(data) :
                              \A m \in Qualifying(data) : k <= m
             IN  perf.kind = "time" /\ perf.time = data.times[first + 1]

\* C3: a run with sim_time = 0 returns seven empty series, and
\* print_performance on it finishes without an error and reports not reached.
EmptyRecordHandled ==
    args.sim_time = 0 =>
        /\ Returned => \A k \in 1 .. 7 : SeriesOf(data)[k] = <<>>
        /\ pc # "raised"
        /\ pc = "reported" => perf.kind = "not_reached"

====
